---- MODULE Spec2Model ----
(***************************************************************************)
(* A model of the Reigh maintenance scripts:                               *)
(*   - scripts/recover_segments.py : the recovery engine that rebuilds a   *)
(*     generation hierarchy from flat task records;                        *)
(*   - scripts/debug/client.py     : DebugClient.get_logs (pagination) and *)
(*     DebugClient.get_task_info (graph assembly with fallback chains).    *)
(* The remote store (supabase) is the environment: a read returns the rows *)
(* of the modelled tables, and every call may fail.                        *)
(***************************************************************************)
EXTENDS Integers, Sequences, FiniteSets, TLC

\* ------------------------------------------------------------------ bounds

\* Largest number of task records in the JSON export given to recovery.
MaxTasks == 2
\* Number of recovery runs made one after the other by the operator.
MaxRuns == 2
\* Largest number of store inserts that fail over all the runs.
MaxFailures == 1

\* ------------------------------------------------------- values and inputs

\* Python's None for a string-valued field.
None == "None"
\* params.get('segment_index') is None (recover_segments.py line 87-89).
NoSeg == -1

SegmentIndexes == {NoSeg, 0, 1}
ChildGenIds == {None, "g1", "g2"}
ParentGenId == "gp"
ProjectId == "p1"

\* The output file of the task with id i ("" is a missing output_location).
Locations == <<"out1", "out2", "out3", "out4", "out5">>

\* status and output_location of a record, as they are exported.
Outcomes ==
    { [status |-> "Complete", has_output |-> TRUE],
      [status |-> "Complete", has_output |-> FALSE],
      [status |-> "Failed", has_output |-> TRUE] }

\* One task record of the export: the row and the fields of its params.
TaskRecord(i, seg, child, oc, ts) ==
    [ id |-> i,
      segment_index |-> seg,
      child_generation_id |-> child,
      parent_generation_id |-> ParentGenId,
      project_id |-> ProjectId,
      status |-> oc.status,
      output_location |-> IF oc.has_output THEN Locations[i] ELSE "",
      created_at |-> ts ]

Runs == 1..MaxRuns

VARIABLES
    \* recovery engine
    tasks,          \* the loaded JSON export (load_tasks_from_json)
    generations,    \* store table generations, in insert order
    variants,       \* store table generation_variants, in insert order
    pc,             \* pc[r]: where run r is in main()
    dry_run,        \* dry_run[r]: args.dry_run of run r
    cur,            \* cur[r]: position in sorted(segments.keys())
    success_count,  \* success_count[r]
    report,         \* report[r]: what run r printed, step by step
    inserts,        \* inserts[r]: insert calls issued by run r
    failures,       \* failures[r]: inserts of run r that returned no data
    store_at_start, \* store_at_start[r]: generation ids present when run r began
    \* DebugClient.get_logs
    log_rows,       \* rows of system_logs that match the filters of the call
    limit,          \* the limit argument
    lpc,            \* where get_logs is
    all_logs,       \* all_logs, as the runs of consecutive rows it holds
    offset,         \* offset
    page_requests,  \* fetch_count of every page request issued, in order
    logs_result,    \* the dict returned
    \* DebugClient.get_task_info
    db_tasks,       \* store table tasks, by ascending created_at
    db_generations, \* store table generations, by ascending created_at
    task_id,        \* the task_id argument
    ipc,            \* where get_task_info is
    info,           \* the TaskInfo being assembled
    calls,          \* the store calls issued so far, each with its outcome
    call_failures   \* store calls that raised so far

recoveryVars ==
    << tasks, generations, variants, pc, dry_run, cur, success_count,
       report, inserts, failures, store_at_start >>

logVars ==
    << log_rows, limit, lpc, all_logs, offset, page_requests, logs_result >>

infoVars ==
    << db_tasks, db_generations, task_id, ipc, info, calls, call_failures >>

vars == << recoveryVars, logVars, infoVars >>

\* ------------------------------------------------------------ analyze_tasks

\* The records that carry a segment_index, in file order.
Grouped(ts) == SelectSeq(ts, LAMBDA t : t.segment_index # NoSeg)

\* First non-empty value of a params field among the grouped records.
FirstNonEmpty(ts, field) ==
    LET g == Grouped(ts)
        idx == { i \in DOMAIN g : g[i][field] # None }
    IN  IF idx = {} THEN None
        ELSE g[CHOOSE i \in idx : \A j \in idx : i <= j][field]

\* The sort without reverse=True: the file's order, oldest first.
SortOldestFirst(s) == s

\* list.sort(key=created_at, reverse=True): stable, newest first.
RECURSIVE SortNewestFirst(_)
SortNewestFirst(s) ==
    IF s = << >> THEN << >>
    ELSE LET n == Len(s)
             rest == SortNewestFirst(SubSeq(s, 1, n - 1))
             x == s[n]
             \* x goes after every element at least as new as it
             k == Cardinality({ i \in DOMAIN rest : rest[i].created_at >= x.created_at })
         IN  SubSeq(rest, 1, k) \o << x >> \o SubSeq(rest, k + 1, Len(rest))

SegmentKeys(ts) == { ts[i].segment_index : i \in DOMAIN ts } \ {NoSeg}

SegmentGroup(ts, seg) ==
    SortNewestFirst(SelectSeq(ts, LAMBDA t : t.segment_index = seg))

\* sorted(segments.keys())
RECURSIVE SortedKeys(_)
SortedKeys(S) ==
    IF S = {} THEN << >>
    ELSE LET m == CHOOSE x \in S : \A y \in S : x <= y
         IN  << m >> \o SortedKeys(S \ {m})

\* --parent-gen-id is not given.
args_parent_gen_id == None

parent_gen_id ==
    IF args_parent_gen_id # None THEN args_parent_gen_id
    ELSE FirstNonEmpty(tasks, "parent_generation_id")

project_id == FirstNonEmpty(tasks, "project_id")

segments == [ s \in SegmentKeys(tasks) |-> SegmentGroup(tasks, s) ]

\* ------------------------------------------------------------ the store

\* The existence check made on the wrong column.
ExistsGenerationByParent(id) ==
    \E i \in DOMAIN generations : generations[i].parent_generation_id = id

\* select('id').eq('id', ...) returns a row (lines 126-127 and 190-191).
ExistsGeneration(id) == \E i \in DOMAIN generations : generations[i].id = id

ParentRow(id) ==
    [ id |-> id, is_child |-> FALSE, parent_generation_id |-> None,
      child_order |-> NoSeg, location |-> "", created_from |-> "recovery_script" ]

\* The row with child_order counted from 1.
ChildRowRenumbered(id, seg, best) ==
    [ id |-> id, is_child |-> TRUE, parent_generation_id |-> parent_gen_id,
      child_order |-> seg + 1, location |-> best.output_location,
      created_from |-> "recovery_script" ]

\* gen_data of recreate_child_generation (lines 223-234).
ChildRow(id, seg, best) ==
    [ id |-> id, is_child |-> TRUE, parent_generation_id |-> parent_gen_id,
      child_order |-> seg, location |-> best.output_location,
      created_from |-> "recovery_script" ]

\* A generation that was in the store before recovery.
OldRow(id) ==
    [ id |-> id, is_child |-> (id # ParentGenId),
      parent_generation_id |-> IF id = ParentGenId THEN None ELSE ParentGenId,
      child_order |-> NoSeg, location |-> "", created_from |-> "user" ]

\* ------------------------------------------- recreate_child_generation

\* The test on output_location alone.
UsableWhateverStatus(t) == t.output_location # ""

\* t.get('status') == 'Complete' and t.get('output_location')
Usable(t) == t.status = "Complete" /\ t.output_location # ""

\* First child_generation_id carried by a record of the group.
ChildGenId(grp) ==
    LET idx == { i \in DOMAIN grp : grp[i].child_generation_id # None }
    IN  IF idx = {} THEN None
        ELSE grp[CHOOSE i \in idx : \A j \in idx : i <= j].child_generation_id

\* Position of the newest completed task with output; 0 when there is none.
BestTask(grp) ==
    LET idx == { i \in DOMAIN grp : Usable(grp[i]) }
    IN  IF idx = {} THEN 0 ELSE CHOOSE i \in idx : \A j \in idx : i <= j

\* Every variant marked primary.
IsPrimaryAlways(i) == i >= 1

\* is_primary = (i == 0): positions are counted from 1 here.
IsPrimary(i) == i = 1

VariantRow(id, t, i) ==
    [ generation_id |-> id, location |-> t.output_location,
      is_primary |-> IsPrimary(i), source_task_id |-> t.id,
      created_from |-> "recovery_script" ]

\* The variant rows of the group's usable records at the positions in ok.
RECURSIVE VariantRows(_, _, _, _)
VariantRows(id, grp, i, ok) ==
    IF i > Len(grp) THEN << >>
    ELSE (IF Usable(grp[i]) /\ i \in ok THEN << VariantRow(id, grp[i], i) >> ELSE << >>)
         \o VariantRows(id, grp, i + 1, ok)

UsablePositions(grp) == { i \in DOMAIN grp : Usable(grp[i]) }

\* ------------------------------------------------------------------- Init

\* What a record of the export may carry. A record without segment_index is
\* dropped by analyze_tasks before any other field of it is read.
Shapes ==
    { [segment_index |-> NoSeg, child_generation_id |-> None, outcome |-> oc] :
        oc \in { [status |-> "Failed", has_output |-> TRUE] } }
    \cup
    { [segment_index |-> seg, child_generation_id |-> child, outcome |-> oc] :
        seg \in SegmentIndexes \ {NoSeg}, child \in ChildGenIds, oc \in Outcomes }

\* The generation ids are named in the order the export first mentions them.
FirstChildIsG1(f) ==
    LET idx == { i \in DOMAIN f : f[i].child_generation_id # None }
    IN  idx = {} \/ f[CHOOSE i \in idx : \A j \in idx : i <= j].child_generation_id = "g1"

\* The exports of at most MaxTasks records: a record's id is its position,
\* and the file lists the records oldest first (created_at is the position).
Exports ==
    UNION { { [ i \in 1..n |->
                  TaskRecord(i, f[i].segment_index, f[i].child_generation_id,
                             f[i].outcome, i) ] :
              f \in { g \in [1..n -> Shapes] : FirstChildIsG1(g) } } :
            n \in 0..MaxTasks }

\* What the store holds before the first run.
InitialStores ==
    { << >>, << OldRow(ParentGenId), OldRow("g1") >> }

InitRecovery ==
    /\ tasks \in Exports
    /\ generations \in InitialStores
    /\ variants = << >>
    /\ pc = [r \in Runs |-> "idle"]
    /\ dry_run = [r \in Runs |-> FALSE]
    /\ cur = [r \in Runs |-> 1]
    /\ success_count = [r \in Runs |-> 0]
    /\ report = [r \in Runs |-> << >>]
    /\ inserts = [r \in Runs |-> [generations |-> 0, generation_variants |-> 0]]
    /\ failures = [r \in Runs |-> 0]
    /\ store_at_start = [r \in Runs |-> {}]

\* The exports of MaxTasks + 1 records that all belong to segment 0, oldest
\* first: every mix of Complete, Failed and missing output within one group.
GroupExports ==
    { [ i \in 1..(MaxTasks + 1) |->
          TaskRecord(i, 0, f[i].child_generation_id, f[i].outcome, i) ] :
        f \in [ 1..(MaxTasks + 1) ->
                  { sh \in Shapes : /\ sh.segment_index = 0
                                    /\ sh.child_generation_id \in { None, "g1" } } ] }

\* The generation id of the segment with a given index.
SegmentGenIds == << "g1", "g2", "g3", "g4" >>

\* What the one record of a segment may be: usable with or without a
\* child_generation_id, Complete without output, Failed with output.
SegmentShapes ==
    { [ has_id |-> TRUE, outcome |-> [status |-> "Complete", has_output |-> TRUE] ],
      [ has_id |-> FALSE, outcome |-> [status |-> "Complete", has_output |-> TRUE] ],
      [ has_id |-> TRUE, outcome |-> [status |-> "Complete", has_output |-> FALSE] ],
      [ has_id |-> TRUE, outcome |-> [status |-> "Failed", has_output |-> TRUE] ] }

\* The exports of one record for each of the segments 0 to 3.
FourSegmentExports ==
    { [ i \in DOMAIN SegmentGenIds |->
          TaskRecord(i, i - 1, IF f[i].has_id THEN SegmentGenIds[i] ELSE None,
                     f[i].outcome, i) ] :
        f \in [ DOMAIN SegmentGenIds -> SegmentShapes ] }

\* Recovery of an export of four segments.
InitFourSegments ==
    /\ tasks \in FourSegmentExports
    /\ generations \in InitialStores
    /\ variants = << >>
    /\ pc = [r \in Runs |-> "idle"]
    /\ dry_run = [r \in Runs |-> FALSE]
    /\ cur = [r \in Runs |-> 1]
    /\ success_count = [r \in Runs |-> 0]
    /\ report = [r \in Runs |-> << >>]
    /\ inserts = [r \in Runs |-> [generations |-> 0, generation_variants |-> 0]]
    /\ failures = [r \in Runs |-> 0]
    /\ store_at_start = [r \in Runs |-> {}]

\* Recovery of an export that is one group.
InitGroup ==
    /\ tasks \in GroupExports
    /\ generations \in InitialStores
    /\ variants = << >>
    /\ pc = [r \in Runs |-> "idle"]
    /\ dry_run = [r \in Runs |-> FALSE]
    /\ cur = [r \in Runs |-> 1]
    /\ success_count = [r \in Runs |-> 0]
    /\ report = [r \in Runs |-> << >>]
    /\ inserts = [r \in Runs |-> [generations |-> 0, generation_variants |-> 0]]
    /\ failures = [r \in Runs |-> 0]
    /\ store_at_start = [r \in Runs |-> {}]

\* ------------------------------------------------------------------- main

Finished(r) == pc[r] \in {"done", "aborted", "crashed"}

\* The flag not passed on to the two functions (their default is False).
DryRunDefault(r) == FALSE

\* if dry_run: return (lines 135 and 204).
DryRun(r) == dry_run[r]

RECURSIVE SumUpTo(_, _)
SumUpTo(f, n) == IF n = 0 THEN 0 ELSE f[n] + SumUpTo(f, n - 1)

\* Failed inserts over all the runs so far.
TotalFailures == SumUpTo(failures, MaxRuns)

GenerationIds == { generations[i].id : i \in DOMAIN generations }

Keys == SortedKeys(SegmentKeys(tasks))

Line(seg, decision, id, result) ==
    [ segment |-> seg, decision |-> decision, id |-> id, result |-> result ]

\* main, lines 285-306: parse the arguments, load and analyze the export and
\* print the header; min(segments.keys()) raises on an export without
\* segments.
StartRun(r) ==
    /\ pc[r] = "idle"
    /\ \A q \in Runs : q < r => Finished(q)
    /\ \E d \in BOOLEAN : dry_run' = [dry_run EXCEPT ![r] = d]
    /\ pc' = [pc EXCEPT ![r] = IF SegmentKeys(tasks) = {} THEN "crashed" ELSE "parent"]
    /\ store_at_start' = [store_at_start EXCEPT ![r] = GenerationIds]
    /\ UNCHANGED << tasks, generations, variants, cur, success_count, report,
                    inserts, failures >>
    /\ UNCHANGED << logVars, infoVars >>

\* The run going on to the children whatever the parent step returned.
AfterParentGoesOn(r, created) == "children"

\* main, lines 321-324: sys.exit(1) when recreate_parent_generation returned
\* False outside a dry run.
AfterParent(r, created) == IF ~created /\ ~dry_run[r] THEN "aborted" ELSE "children"

\* The loop left at the first segment that returned no id.
AfterChildStopsOnNone(r, result) ==
    IF result = None /\ ~dry_run[r] THEN "aborted" ELSE "children"

\* main, lines 332-342: the loop goes on whatever recreate_child_generation
\* returned.
AfterChild(r, result) == "children"

\* recreate_parent_generation and main's lines 321-324.
RecreateParent(r) ==
    /\ pc[r] = "parent"
    /\ IF ExistsGeneration(parent_gen_id)
       THEN /\ report' = [report EXCEPT ![r] = Append(@, Line(NoSeg, "exists", parent_gen_id, parent_gen_id))]
            /\ pc' = [pc EXCEPT ![r] = AfterParent(r, TRUE)]
            /\ UNCHANGED << generations, inserts, failures >>
       ELSE IF DryRun(r)
       THEN /\ report' = [report EXCEPT ![r] = Append(@, Line(NoSeg, "create", parent_gen_id, parent_gen_id))]
            /\ pc' = [pc EXCEPT ![r] = AfterParent(r, TRUE)]
            /\ UNCHANGED << generations, inserts, failures >>
       ELSE \E ok \in BOOLEAN :
            /\ ok \/ TotalFailures < MaxFailures
            /\ inserts' = [inserts EXCEPT ![r].generations = @ + 1]
            /\ IF ok
               THEN /\ generations' = Append(generations, ParentRow(parent_gen_id))
                    /\ report' = [report EXCEPT ![r] = Append(@, Line(NoSeg, "create", parent_gen_id, parent_gen_id))]
                    /\ pc' = [pc EXCEPT ![r] = AfterParent(r, TRUE)]
                    /\ UNCHANGED failures
               ELSE /\ failures' = [failures EXCEPT ![r] = @ + 1]
                    /\ report' = [report EXCEPT ![r] = Append(@, Line(NoSeg, "create", parent_gen_id, None))]
                    /\ pc' = [pc EXCEPT ![r] = AfterParent(r, FALSE)]
                    /\ UNCHANGED generations
    /\ UNCHANGED << tasks, variants, dry_run, cur, success_count, store_at_start >>
    /\ UNCHANGED << logVars, infoVars >>

\* A call of recreate_child_generation that returns without an insert.
ChildReturns(r, seg, decision, id, result) ==
    /\ report' = [report EXCEPT ![r] = Append(@, Line(seg, decision, id, result))]
    /\ success_count' = [success_count EXCEPT ![r] = IF result # None THEN @ + 1 ELSE @]
    /\ pc' = [pc EXCEPT ![r] = AfterChild(r, result)]
    /\ UNCHANGED << generations, variants, inserts, failures >>

\* One turn of main's loop, lines 332-342: recreate_child_generation for the
\* next segment, and the count of its result.
RecreateChild(r) ==
    /\ pc[r] = "children"
    /\ cur[r] <= Len(Keys)
    /\ LET seg == Keys[cur[r]]
           grp == segments[seg]
           id == ChildGenId(grp)
           b == BestTask(grp)
           usable == UsablePositions(grp)
       IN  IF id = None THEN ChildReturns(r, seg, "skip", None, None)
           ELSE IF b = 0 THEN ChildReturns(r, seg, "skip", id, None)
           ELSE IF ExistsGeneration(id) THEN ChildReturns(r, seg, "exists", id, id)
           ELSE IF DryRun(r) THEN ChildReturns(r, seg, "create", id, id)
           ELSE \E okGen \in BOOLEAN, okVar \in SUBSET usable :
                /\ ~okGen => okVar = usable
                /\ LET failed == IF okGen THEN Cardinality(usable \ okVar) ELSE 1
                   IN  /\ TotalFailures + failed <= MaxFailures
                       /\ failures' = [failures EXCEPT ![r] = @ + failed]
                /\ IF okGen
                   THEN /\ generations' = Append(generations, ChildRow(id, seg, grp[b]))
                        /\ variants' = variants \o VariantRows(id, grp, 1, okVar)
                        /\ inserts' = [inserts EXCEPT ![r].generations = @ + 1,
                                                      ![r].generation_variants = @ + Cardinality(usable)]
                        /\ success_count' = [success_count EXCEPT ![r] = @ + 1]
                        /\ report' = [report EXCEPT ![r] = Append(@, Line(seg, "create", id, id))]
                        /\ pc' = [pc EXCEPT ![r] = AfterChild(r, id)]
                   ELSE /\ inserts' = [inserts EXCEPT ![r].generations = @ + 1]
                        /\ report' = [report EXCEPT ![r] = Append(@, Line(seg, "create", id, None))]
                        /\ pc' = [pc EXCEPT ![r] = AfterChild(r, None)]
                        /\ UNCHANGED << generations, variants, success_count >>
    /\ cur' = [cur EXCEPT ![r] = @ + 1]
    /\ UNCHANGED << tasks, dry_run, store_at_start >>
    /\ UNCHANGED << logVars, infoVars >>

\* main, lines 344-349: the loop is over and the tally is printed.
Finish(r) ==
    /\ pc[r] = "children"
    /\ cur[r] > Len(Keys)
    /\ pc' = [pc EXCEPT ![r] = "done"]
    /\ UNCHANGED << tasks, generations, variants, dry_run, cur, success_count,
                    report, inserts, failures, store_at_start >>
    /\ UNCHANGED << logVars, infoVars >>

NextRecovery ==
    \E r \in Runs :
        \/ StartRun(r)
        \/ RecreateParent(r)
        \/ RecreateChild(r)
        \/ Finish(r)

\* ------------------------------------- recovery runs that are interleaved

\* Two invocations of the script at once: each round trip to the store is a
\* step of its own, so that another run's steps come between the select of
\* an id and the insert that follows it.

\* main, lines 285-306, of a run started while others are running.
StartConcurrentRun(r) ==
    /\ pc[r] = "idle"
    /\ \E d \in BOOLEAN : dry_run' = [dry_run EXCEPT ![r] = d]
    /\ pc' = [pc EXCEPT ![r] = IF SegmentKeys(tasks) = {} THEN "crashed" ELSE "parent"]
    /\ UNCHANGED << tasks, generations, variants, cur, success_count, report,
                    inserts, failures, store_at_start >>
    /\ UNCHANGED << logVars, infoVars >>

\* recreate_parent_generation, lines 126-136: the select and the returns
\* that need no insert.
CheckParent(r) ==
    /\ pc[r] = "parent"
    /\ IF ExistsGeneration(parent_gen_id)
       THEN /\ report' = [report EXCEPT ![r] = Append(@, Line(NoSeg, "exists", parent_gen_id, parent_gen_id))]
            /\ pc' = [pc EXCEPT ![r] = AfterParent(r, TRUE)]
       ELSE IF DryRun(r)
       THEN /\ report' = [report EXCEPT ![r] = Append(@, Line(NoSeg, "create", parent_gen_id, parent_gen_id))]
            /\ pc' = [pc EXCEPT ![r] = AfterParent(r, TRUE)]
       ELSE /\ pc' = [pc EXCEPT ![r] = "parent_insert"]
            /\ UNCHANGED report
    /\ UNCHANGED << tasks, generations, variants, dry_run, cur, success_count,
                    inserts, failures, store_at_start >>
    /\ UNCHANGED << logVars, infoVars >>

\* recreate_parent_generation, lines 139-154, and main's lines 321-324: the
\* insert. The store takes the row of an id it already holds or refuses it.
InsertParent(r) ==
    /\ pc[r] = "parent_insert"
    /\ \E ok \in BOOLEAN :
        /\ ok \/ parent_gen_id \in GenerationIds
        /\ inserts' = [inserts EXCEPT ![r].generations = @ + 1]
        /\ IF ok
           THEN /\ generations' = Append(generations, ParentRow(parent_gen_id))
                /\ report' = [report EXCEPT ![r] = Append(@, Line(NoSeg, "create", parent_gen_id, parent_gen_id))]
                /\ pc' = [pc EXCEPT ![r] = AfterParent(r, TRUE)]
                /\ UNCHANGED failures
           ELSE /\ failures' = [failures EXCEPT ![r] = @ + 1]
                /\ report' = [report EXCEPT ![r] = Append(@, Line(NoSeg, "create", parent_gen_id, None))]
                /\ pc' = [pc EXCEPT ![r] = AfterParent(r, FALSE)]
                /\ UNCHANGED generations
    /\ UNCHANGED << tasks, variants, dry_run, cur, success_count, store_at_start >>
    /\ UNCHANGED << logVars, infoVars >>

\* recreate_child_generation, lines 167-205, for the next segment of the
\* loop: the select and the returns that need no insert.
CheckChild(r) ==
    /\ pc[r] = "children"
    /\ cur[r] <= Len(Keys)
    /\ LET seg == Keys[cur[r]]
           grp == segments[seg]
           id == ChildGenId(grp)
           b == BestTask(grp)
       IN  IF id = None \/ b = 0 \/ ExistsGeneration(id) \/ DryRun(r)
           THEN /\ IF id = None THEN ChildReturns(r, seg, "skip", None, None)
                   ELSE IF b = 0 THEN ChildReturns(r, seg, "skip", id, None)
                   ELSE IF ExistsGeneration(id) THEN ChildReturns(r, seg, "exists", id, id)
                   ELSE ChildReturns(r, seg, "create", id, id)
                /\ cur' = [cur EXCEPT ![r] = @ + 1]
           ELSE /\ pc' = [pc EXCEPT ![r] = "child_insert"]
                /\ UNCHANGED << generations, variants, inserts, failures, report,
                                success_count, cur >>
    /\ UNCHANGED << tasks, dry_run, store_at_start >>
    /\ UNCHANGED << logVars, infoVars >>

\* recreate_child_generation, lines 207-282, and the count of main's loop:
\* the insert of the generation and of its variants.
InsertChild(r) ==
    /\ pc[r] = "child_insert"
    /\ LET seg == Keys[cur[r]]
           grp == segments[seg]
           id == ChildGenId(grp)
           b == BestTask(grp)
           usable == UsablePositions(grp)
       IN  \E ok \in BOOLEAN :
            /\ ok \/ id \in GenerationIds
            /\ IF ok
               THEN /\ generations' = Append(generations, ChildRow(id, seg, grp[b]))
                    /\ variants' = variants \o VariantRows(id, grp, 1, usable)
                    /\ inserts' = [inserts EXCEPT ![r].generations = @ + 1,
                                                  ![r].generation_variants = @ + Cardinality(usable)]
                    /\ success_count' = [success_count EXCEPT ![r] = @ + 1]
                    /\ report' = [report EXCEPT ![r] = Append(@, Line(seg, "create", id, id))]
                    /\ pc' = [pc EXCEPT ![r] = AfterChild(r, id)]
                    /\ UNCHANGED failures
               ELSE /\ inserts' = [inserts EXCEPT ![r].generations = @ + 1]
                    /\ failures' = [failures EXCEPT ![r] = @ + 1]
                    /\ report' = [report EXCEPT ![r] = Append(@, Line(seg, "create", id, None))]
                    /\ pc' = [pc EXCEPT ![r] = AfterChild(r, None)]
                    /\ UNCHANGED << generations, variants, success_count >>
    /\ cur' = [cur EXCEPT ![r] = @ + 1]
    /\ UNCHANGED << tasks, dry_run, store_at_start >>
    /\ UNCHANGED << logVars, infoVars >>

\* The exports the interleaved runs work on: segments 0 and 1 with one record
\* each, of the same child_generation_id or of two.
ConcurrentExports ==
    { << TaskRecord(1, 0, "g1", oc1, 1), TaskRecord(2, 1, c2, oc2, 2) >> :
        oc1 \in { oc \in Outcomes : oc.has_output },
        oc2 \in { oc \in Outcomes : oc.has_output },
        c2 \in { "g1", "g2" } }

InitConcurrent ==
    /\ tasks \in ConcurrentExports
    /\ generations \in InitialStores
    /\ variants = << >>
    /\ pc = [r \in Runs |-> "idle"]
    /\ dry_run = [r \in Runs |-> FALSE]
    /\ cur = [r \in Runs |-> 1]
    /\ success_count = [r \in Runs |-> 0]
    /\ report = [r \in Runs |-> << >>]
    /\ inserts = [r \in Runs |-> [generations |-> 0, generation_variants |-> 0]]
    /\ failures = [r \in Runs |-> 0]
    /\ store_at_start = [r \in Runs |-> {}]

NextConcurrent ==
    \E r \in Runs :
        \/ StartConcurrentRun(r)
        \/ CheckParent(r)
        \/ InsertParent(r)
        \/ CheckChild(r)
        \/ InsertChild(r)
        \/ Finish(r)

\* --------------------------------------------------- DebugClient.get_logs

\* PAGE_SIZE = 1000 and max_pages = 100.
PAGE_SIZE == 1000
max_pages == 100

\* limit is None.
NoLimit == -1

\* The sizes of the filtered log table and the limits that are tried.
LogTableSizes ==
    { 0, 1, 999, 1000, 1001, 2500, 3000, 99999, 100000, 100001, 100500, 101000,
      101001, 150000 }
Limits == { NoLimit, 1, 500, 1000, 1001, 2500, 99000, 100000, 100001, 120000 }

\* The rows of the table are numbered 1..n by ascending timestamp. A run is
\* a sequence of consecutive rows, held by its first and its last row: a
\* page in descending order is a run with first >= last.
Run(first, last) == [ first |-> first, last |-> last ]

RunLength(run) ==
    IF run.first >= run.last THEN run.first - run.last + 1
    ELSE run.last - run.first + 1

\* len() of a list held as runs.
RECURSIVE RowCount(_)
RowCount(runs) ==
    IF runs = << >> THEN 0
    ELSE RunLength(runs[Len(runs)]) + RowCount(SubSeq(runs, 1, Len(runs) - 1))

\* order('timestamp', desc=True).range(off, off + cnt - 1) on a table of n
\* rows: the rows at positions off .. off + cnt - 1 of the descending order.
PageRows(n, off, cnt) ==
    IF cnt <= 0 \/ off >= n THEN << >>
    ELSE << Run(n - off, IF n - off - cnt + 1 >= 1 THEN n - off - cnt + 1 ELSE 1) >>

NotReversed(runs) == runs

\* list.reverse()
Reverse(runs) ==
    [ i \in 1..Len(runs) |->
        Run(runs[Len(runs) + 1 - i].last, runs[Len(runs) + 1 - i].first) ]

FetchCountPageSize(lim, have) == PAGE_SIZE

\* fetch_count (lines 299-304).
FetchCount(lim, have) ==
    IF lim # NoLimit
    THEN (IF PAGE_SIZE <= lim - have THEN PAGE_SIZE ELSE lim - have)
    ELSE PAGE_SIZE

\* The stop condition of the safety limit (line 319).
SafetyLimitReached(off) == off \div PAGE_SIZE >= max_pages

InitLogs ==
    /\ log_rows \in LogTableSizes
    /\ limit = NoLimit
    /\ lpc = "idle"
    /\ all_logs = << >>
    /\ offset = 0
    /\ page_requests = << >>
    /\ logs_result = [ logs |-> << >>, total_count |-> 0 ]

IdleLogs ==
    /\ log_rows = 0
    /\ limit = NoLimit
    /\ lpc = "idle"
    /\ all_logs = << >>
    /\ offset = 0
    /\ page_requests = << >>
    /\ logs_result = [ logs |-> << >>, total_count |-> 0 ]

\* get_logs is called (latest_session is False): lines 277-280.
CallGetLogs ==
    /\ lpc = "idle"
    /\ limit' \in Limits
    /\ lpc' = "loop"
    /\ all_logs' = << >>
    /\ offset' = 0
    /\ UNCHANGED << log_rows, page_requests, logs_result >>
    /\ UNCHANGED << recoveryVars, infoVars >>

\* One turn of the while loop, lines 282-323: a page is requested and read,
\* and the loop stops or moves the offset on.
FetchPage ==
    /\ lpc = "loop"
    /\ LET fetch_count == FetchCount(limit, RowCount(all_logs))
           page_logs == PageRows(log_rows, offset, fetch_count)
           got == all_logs \o page_logs
       IN  /\ page_requests' = Append(page_requests, fetch_count)
           /\ all_logs' = got
           /\ IF RowCount(page_logs) < fetch_count
              THEN lpc' = "reverse" /\ UNCHANGED offset
              ELSE IF limit # NoLimit /\ RowCount(got) >= limit
              THEN lpc' = "reverse" /\ UNCHANGED offset
              ELSE IF SafetyLimitReached(offset)
              THEN lpc' = "reverse" /\ UNCHANGED offset
              ELSE lpc' = "loop" /\ offset' = offset + RowCount(page_logs)
    /\ UNCHANGED << log_rows, limit, logs_result >>
    /\ UNCHANGED << recoveryVars, infoVars >>

\* Lines 325-333: the list is reversed and returned.
ReturnLogs ==
    /\ lpc = "reverse"
    /\ logs_result' = [ logs |-> Reverse(all_logs), total_count |-> RowCount(all_logs) ]
    /\ lpc' = "done"
    /\ UNCHANGED << log_rows, limit, all_logs, offset, page_requests >>
    /\ UNCHANGED << recoveryVars, infoVars >>

NextLogs == CallGetLogs \/ FetchPage \/ ReturnLogs

\* The most rows the table grows to while it is written to.
MaxLogRows == 4000

\* How many rows a writer adds between two reads, and the table it starts
\* from.
AppendSizes == { 500, 1000 }
AppendTableSizes == { 0, 1000, 1500, 2000, 3000 }

\* system_logs is append-only: another process writes rows with newer
\* timestamps, which take the highest row numbers.
AppendLogs ==
    /\ \E k \in AppendSizes :
           /\ log_rows + k <= MaxLogRows
           /\ log_rows' = log_rows + k
    /\ UNCHANGED << limit, lpc, all_logs, offset, page_requests, logs_result >>
    /\ UNCHANGED << recoveryVars, infoVars >>

InitLogsAppend ==
    /\ log_rows \in AppendTableSizes
    /\ limit = NoLimit
    /\ lpc = "idle"
    /\ all_logs = << >>
    /\ offset = 0
    /\ page_requests = << >>
    /\ logs_result = [ logs |-> << >>, total_count |-> 0 ]

NextLogsAppend == NextLogs \/ AppendLogs

\* The recovery engine is not running.
IdleRecovery ==
    /\ tasks = << >>
    /\ generations = << >>
    /\ variants = << >>
    /\ pc = [r \in Runs |-> "idle"]
    /\ dry_run = [r \in Runs |-> FALSE]
    /\ cur = [r \in Runs |-> 1]
    /\ success_count = [r \in Runs |-> 0]
    /\ report = [r \in Runs |-> << >>]
    /\ inserts = [r \in Runs |-> [generations |-> 0, generation_variants |-> 0]]
    /\ failures = [r \in Runs |-> 0]
    /\ store_at_start = [r \in Runs |-> {}]

\* ---------------------------------------------- DebugClient: the store

\* limit(100) of the two client-side scans.
SCAN_LIMIT == 100

TaskTypes ==
    { "travel_segment", "join_clips_segment", "travel_orchestrator",
      "join_clips_orchestrator", "single_image" }

\* The keys of params that get_task_info and its helpers read.
Params(gen, otid, otref, orid, run, seg, sq) ==
    [ generation_id |-> gen, orchestrator_task_id |-> otid,
      orchestrator_task_id_ref |-> otref, orchestrator_run_id |-> orid,
      run_id |-> run, segment_index |-> seg, sequence_index |-> sq ]

\* dependant_on: null, a bare task id (legacy), or an array of task ids.
NoDependency == [ kind |-> "null", ids |-> << >> ]
LegacyDependency(id) == [ kind |-> "string", ids |-> << id >> ]
Dependencies(ids) == [ kind |-> "list", ids |-> ids ]

TaskRow(id, type, params, dep, worker) ==
    [ id |-> id, task_type |-> type, params |-> params, dependant_on |-> dep,
      worker_id |-> worker ]

\* The other rows of tasks: the orchestrator t2 of run r1 and its segments
\* t3 and t4; t3 depends on t1.
OrchestratorT2 ==
    TaskRow("t2", "travel_orchestrator",
            Params(None, None, None, None, "r1", NoSeg, NoSeg), NoDependency, "w1")
SegmentT3 ==
    TaskRow("t3", "travel_segment",
            Params(None, "t2", None, "r1", None, 1, NoSeg), Dependencies(<< "t1" >>), "w1")
SegmentT4 ==
    TaskRow("t4", "travel_segment",
            Params(None, "t2", None, "r1", None, 0, 5), NoDependency, None)

\* What the row of the requested task t1 may be.
SubjectRows ==
    { TaskRow("t1", type, Params(gen, orch.otid, None, orch.orid, orch.run, NoSeg, NoSeg),
              dep, worker) :
        type \in TaskTypes,
        gen \in { None, "g1", "g9" },
        orch \in { [otid |-> None, orid |-> None, run |-> None],
                   [otid |-> "t2", orid |-> "r1", run |-> None],
                   [otid |-> None, orid |-> None, run |-> "r1"],
                   [otid |-> "t2", orid |-> "r1", run |-> "r1"] },
        dep \in { NoDependency, LegacyDependency("t2"), Dependencies(<< "t9", "t2" >>) },
        worker \in { None, "w1" } }

\* Rows of t1 with the other forms of dependant_on: a bare id that resolves
\* to nothing, a list of two ids that both resolve, and an empty list.
DependencySubjectRows ==
    { TaskRow("t1", "single_image", Params(None, None, None, None, None, NoSeg, NoSeg),
              dep, None) :
        dep \in { LegacyDependency("t9"), Dependencies(<< "t3", "t2" >>),
                  Dependencies(<< >>) } }

\* A row of generations: its id and its tasks array.
GenerationRow(id, ts) == [ id |-> id, tasks |-> ts ]

\* The other tables hold rows for t1, g1, g2 and w1, whether or not the
\* task row of t1 exists.
SystemLogs(tid) == IF tid = "t1" THEN << "log1", "log2" >> ELSE << >>
CreditsLedger(tid) == IF tid = "t1" THEN << "credit1" >> ELSE << >>
Workers(wid) == IF wid = "w1" THEN << [ id |-> "w1" ] >> ELSE << >>
GenerationVariants(gid) ==
    IF gid \in { "g1", "g2" } THEN << [ generation_id |-> gid, variant |-> "v1" ] >>
    ELSE << >>
ShotGenerations(gid) ==
    IF gid \in { "g1", "g2" } THEN << [ generation_id |-> gid, shot |-> "s1" ] >>
    ELSE << >>

\* table(...).eq('id', id): the rows with that id.
TasksById(id) == SelectSeq(db_tasks, LAMBDA t : t.id = id)
GenerationsById(id) == SelectSeq(db_generations, LAMBDA g : g.id = id)

\* The first n rows of a result.
FirstRows(rows, n) == SubSeq(rows, 1, IF Len(rows) <= n THEN Len(rows) ELSE n)

ReverseRows(rows) == [ i \in 1..Len(rows) |-> rows[Len(rows) + 1 - i] ]

Contains(seq, x) == \E i \in DOMAIN seq : seq[i] = x

\* rpc get_generation_by_task_id: the generations whose tasks array holds
\* the task id.
RpcGenerationByTaskId(tid) ==
    SelectSeq(db_generations, LAMBDA g : Contains(g.tasks, tid))

\* rpc get_tasks_by_run_id: the tasks of the run, but for the excluded one.
RpcTasksByRunId(run, exclude) ==
    SelectSeq(db_tasks,
              LAMBDA t : t.params.orchestrator_run_id = run /\ t.id # exclude)

\* table('generations').order('created_at', desc=True).limit(100)
RecentGenerations == FirstRows(ReverseRows(db_generations), SCAN_LIMIT)

\* table('tasks').in_('task_type', [segment types]).order('created_at').limit(100)
ScannedTasks ==
    FirstRows(SelectSeq(db_tasks,
                        LAMBDA t : t.task_type \in { "travel_segment", "join_clips_segment" }),
              SCAN_LIMIT)

\* -------------------------------------------- DebugClient: the helpers
\* A helper is given the outcome of every store call it may make (TRUE: the
\* call returns, FALSE: it raises) and yields its return value and the calls
\* it issued.

\* One store call: whether it returned, and whether with a row.
Call(name, ok, rows) == [ call |-> name, ok |-> ok, found |-> ok /\ rows # << >> ]

Returned(value, cs) == [ value |-> value, calls |-> cs ]

FailedCalls(cs) == Cardinality({ i \in DOMAIN cs : ~cs[i].ok })

\* a or b, for ids.
Or(a, b) == IF a # None THEN a ELSE b

\* How a call of a server-side procedure ends: with the rows it searches
\* for, with no row (the procedure of the deployment finds none), or with a
\* remote error.
RpcOutcomes == { "rows", "empty", "raised" }

RpcAnswer(outcome, rows) == IF outcome = "rows" THEN rows ELSE << >>

\* _get_task_logs
GetTaskLogs(tid, ok) ==
    Returned(IF ok THEN SystemLogs(tid) ELSE << >>,
             << Call("system_logs", ok, SystemLogs(tid)) >>)

\* _get_generation_for_task: method 1 (params.generation_id), method 2 (the
\* rpc) and method 3 (the scan of the recent generations). Only methods 2
\* and 3 have a try of their own.
GetGenerationForTask(tid, o) ==
    LET rows == TasksById(tid)
        gen_id == IF rows # << >> THEN rows[1].params.generation_id ELSE None
        direct == GenerationsById(gen_id)
        rpc == RpcAnswer(o.rpc, RpcGenerationByTaskId(tid))
        scan == SelectSeq(RecentGenerations, LAMBDA g : Contains(g.tasks, tid))
        c1 == Call("tasks.params", o.params, rows)
        c2 == Call("generations.by_id", o.direct, direct)
        c3 == Call("rpc.get_generation_by_task_id", o.rpc # "raised", rpc)
        c4 == Call("generations.recent", o.scan, scan)
        Methods2And3(before) ==
            IF rpc # << >> THEN Returned(<< rpc[1] >>, before \o << c3 >>)
            ELSE IF o.scan /\ scan # << >>
            THEN Returned(<< scan[1] >>, before \o << c3, c4 >>)
            ELSE Returned(<< >>, before \o << c3, c4 >>)
    IN  IF ~o.params THEN Returned(<< >>, << c1 >>)
        ELSE IF gen_id = None THEN Methods2And3(<< c1 >>)
        ELSE IF ~o.direct THEN Returned(<< >>, << c1, c2 >>)
        ELSE IF direct # << >> THEN Returned(<< direct[1] >>, << c1, c2 >>)
        ELSE Methods2And3(<< c1, c2 >>)

\* _get_variants
GetVariants(gid, ok) ==
    IF gid = None THEN Returned(<< >>, << >>)
    ELSE Returned(IF ok THEN GenerationVariants(gid) ELSE << >>,
                  << Call("generation_variants", ok, GenerationVariants(gid)) >>)

\* _get_worker_info
GetWorkerInfo(wid, ok) ==
    IF wid = None THEN Returned(<< >>, << >>)
    ELSE Returned(IF ok THEN FirstRows(Workers(wid), 1) ELSE << >>,
                  << Call("workers", ok, Workers(wid)) >>)

\* _get_credit_entries
GetCreditEntries(tid, ok) ==
    Returned(IF ok THEN CreditsLedger(tid) ELSE << >>,
             << Call("credits_ledger", ok, CreditsLedger(tid)) >>)

\* The columns of a task that a relationship keeps; segment_index is the
\* key _get_child_tasks adds (NoSeg: the key is absent or None).
TaskEntry(t, seg) == [ id |-> t.id, task_type |-> t.task_type, segment_index |-> seg ]

Entries(rows) == [ i \in DOMAIN rows |-> TaskEntry(rows[i], NoSeg) ]

\* _get_task_summary
GetTaskSummary(tid, ok) ==
    IF tid = None THEN Returned(<< >>, << >>)
    ELSE Returned(IF ok THEN Entries(FirstRows(TasksById(tid), 1)) ELSE << >>,
                  << Call("tasks.summary", ok, TasksById(tid)) >>)

\* The list handled as the bare id is: its first id only.
SummariesFirstOnly(ids, oks, i) == GetTaskSummary(ids[1], oks[1])

\* [t for t in (self._get_task_summary(tid) for tid in ids) if t]
RECURSIVE Summaries(_, _, _)
Summaries(ids, oks, i) ==
    IF i > Len(ids) THEN Returned(<< >>, << >>)
    ELSE LET one == GetTaskSummary(ids[i], oks[i])
             rest == Summaries(ids, oks, i + 1)
         IN  Returned(one.value \o rest.value, one.calls \o rest.calls)

\* _get_predecessor_tasks
GetPredecessorTasks(dependant_on, oks) ==
    IF dependant_on.kind = "null" \/ dependant_on.ids = << >> THEN Returned(<< >>, << >>)
    ELSE IF dependant_on.kind = "list" THEN Summaries(dependant_on.ids, oks, 1)
    ELSE GetTaskSummary(dependant_on.ids[1], oks[1])

\* _get_dependent_tasks
GetDependentTasks(tid, ok) ==
    LET rows == SelectSeq(db_tasks, LAMBDA t : Contains(t.dependant_on.ids, tid))
    IN  Returned(IF ok THEN Entries(rows) ELSE << >>,
                 << Call("tasks.dependents", ok, rows) >>)

\* _get_shot_associations
GetShotAssociations(gid, ok) ==
    IF gid = None THEN Returned(<< >>, << >>)
    ELSE Returned(IF ok THEN ShotGenerations(gid) ELSE << >>,
                  << Call("shot_generations", ok, ShotGenerations(gid)) >>)

\* The manual query of _get_run_siblings and its filter.
ScanSiblings(run, exclude) ==
    SelectSeq(ScannedTasks,
              LAMBDA t : t.params.orchestrator_run_id = run /\ t.id # exclude)

\* _get_run_siblings: one try around the rpc and the manual query.
GetRunSiblings(run, exclude, o) ==
    LET rpc == RpcAnswer(o.rpc, RpcTasksByRunId(run, exclude))
        siblings == ScanSiblings(run, exclude)
        c1 == Call("rpc.get_tasks_by_run_id", o.rpc # "raised", rpc)
        c2 == Call("tasks.scan", o.scan, siblings)
    IN  IF o.rpc = "raised" THEN Returned(<< >>, << c1 >>)
        ELSE IF rpc # << >> THEN Returned(Entries(rpc), << c1 >>)
        ELSE IF ~o.scan THEN Returned(<< >>, << c1, c2 >>)
        ELSE Returned(Entries(siblings), << c1, c2 >>)

\* params.get('segment_index') or params.get('sequence_index')
SegmentIndexOf(params) ==
    IF params.segment_index # NoSeg /\ params.segment_index # 0
    THEN params.segment_index
    ELSE params.sequence_index

\* t.get('segment_index') or 0
SortKey(entry) == IF entry.segment_index = NoSeg THEN 0 ELSE entry.segment_index

\* list.sort(key=...): stable, ascending.
RECURSIVE SortBySegmentIndex(_)
SortBySegmentIndex(s) ==
    IF s = << >> THEN << >>
    ELSE LET n == Len(s)
             rest == SortBySegmentIndex(SubSeq(s, 1, n - 1))
             x == s[n]
             k == Cardinality({ i \in DOMAIN rest : SortKey(rest[i]) <= SortKey(x) })
         IN  SubSeq(rest, 1, k) \o << x >> \o SubSeq(rest, k + 1, Len(rest))

\* The manual query of _get_child_tasks, its filter and its sort.
ScanChildren(run) ==
    LET matching == SelectSeq(ScannedTasks, LAMBDA t : t.params.orchestrator_run_id = run)
    IN  SortBySegmentIndex([ i \in DOMAIN matching |->
                               TaskEntry(matching[i], SegmentIndexOf(matching[i].params)) ])

\* _get_child_tasks: one try around the rpc and the manual query.
GetChildTasks(run, o) ==
    LET rpc == RpcAnswer(o.rpc, RpcTasksByRunId(run, None))
        children == ScanChildren(run)
        c1 == Call("rpc.get_tasks_by_run_id", o.rpc # "raised", rpc)
        c2 == Call("tasks.scan", o.scan, children)
    IN  IF o.rpc = "raised" THEN Returned(<< >>, << c1 >>)
        ELSE IF rpc # << >> THEN Returned(Entries(rpc), << c1 >>)
        ELSE IF ~o.scan THEN Returned(<< >>, << c1, c2 >>)
        ELSE Returned(children, << c1, c2 >>)

\* --------------------------------------------------- get_task_info

\* TaskInfo(task_id=task_id, state=state, logs=[]); an optional row is a
\* sequence of at most one row.
TaskInfo(tid, state) ==
    [ task_id |-> tid, state |-> state, logs |-> << >>, generation |-> << >>,
      variants |-> << >>, worker |-> << >>, credit_entries |-> << >>,
      orchestrator_task |-> << >>, child_tasks |-> << >>, run_siblings |-> << >>,
      dependent_tasks |-> << >>, predecessor_tasks |-> << >>,
      shot_associations |-> << >> ]

\* No call of get_task_info is under way.
IdleInfo ==
    /\ db_tasks = << >>
    /\ db_generations = << >>
    /\ task_id = None
    /\ ipc = "idle"
    /\ info = TaskInfo(None, << >>)
    /\ calls = << >>
    /\ call_failures = 0

\* get_task_info("t1") is called on a store that holds the row of t1 or not,
\* and a generation whose tasks array names t1 or not.
InitInfo ==
    /\ db_tasks \in { << OrchestratorT2, SegmentT3, SegmentT4 >> }
                    \cup { << row, OrchestratorT2, SegmentT3, SegmentT4 >> :
                             row \in SubjectRows \cup DependencySubjectRows }
    /\ db_generations \in
         { << GenerationRow("g1", << >>), GenerationRow("g2", ts) >> :
             ts \in { << >>, << "t1" >> } }
    /\ task_id = "t1"
    /\ ipc = "start"
    /\ info = TaskInfo(None, << >>)
    /\ calls = << >>
    /\ call_failures = 0

\* SCAN_LIMIT segment tasks of an earlier run r0, older than every other row
\* of tasks.
OldSegments ==
    [ i \in 1..SCAN_LIMIT |->
        TaskRow(ToString(i), "travel_segment",
                Params(None, "t0", None, "r0", None, i, NoSeg), NoDependency, None) ]

\* The rows of t1 without generation, dependency and worker.
ScanSubjectRows ==
    { row \in SubjectRows : /\ row.params.generation_id = None
                            /\ row.dependant_on = NoDependency
                            /\ row.worker_id = None }

\* get_task_info("t1") on a store whose tasks table holds more segment tasks
\* than one scan reads: the run r1 is the newest.
InitScan ==
    /\ db_tasks \in { OldSegments \o << row, OrchestratorT2, SegmentT3, SegmentT4 >> :
                        row \in ScanSubjectRows }
    /\ db_generations \in
         { << GenerationRow("g1", << >>), GenerationRow("g2", ts) >> :
             ts \in { << >>, << "t1" >> } }
    /\ task_id = "t1"
    /\ ipc = "start"
    /\ info = TaskInfo(None, << >>)
    /\ calls = << >>
    /\ call_failures = 0

\* The failures of a run stay within the bound.
WithinFailures(cs) == call_failures + FailedCalls(cs) <= MaxFailures

Issue(cs) ==
    /\ calls' = calls \o cs
    /\ call_failures' = call_failures + FailedCalls(cs)

NeverReturnsEarly(state) == FALSE

\* if not state: return info
ReturnsEarly(state) == state = << >>

\* The read of the task row, outside any try, and the early return.
GetTaskState ==
    /\ ipc = "start"
    /\ \E ok \in BOOLEAN :
         LET rows == TasksById(task_id)
             cs == << Call("tasks.by_id", ok, rows) >>
             state == FirstRows(rows, 1)
         IN  /\ WithinFailures(cs)
             /\ Issue(cs)
             /\ IF ~ok
                THEN ipc' = "raised" /\ info' = info
                ELSE /\ info' = TaskInfo(task_id, state)
                     /\ ipc' = IF ReturnsEarly(state) THEN "returned" ELSE "logs"
    /\ UNCHANGED << db_tasks, db_generations, task_id, recoveryVars, logVars >>

\* One assignment of lines 45 to 50: the helper's result goes to its field.
Assign(at, next, field, r) ==
    /\ ipc = at
    /\ WithinFailures(r.calls)
    /\ Issue(r.calls)
    /\ info' = [ info EXCEPT ![field] = r.value ]
    /\ ipc' = next
    /\ UNCHANGED << db_tasks, db_generations, task_id, recoveryVars, logVars >>

GetLogs == \E ok \in BOOLEAN : Assign("logs", "generation", "logs", GetTaskLogs(task_id, ok))

GetGeneration ==
    \E o \in [ params : BOOLEAN, direct : BOOLEAN, rpc : RpcOutcomes, scan : BOOLEAN ] :
        Assign("generation", "worker", "generation", GetGenerationForTask(task_id, o))

GetWorker ==
    \E ok \in BOOLEAN :
        Assign("worker", "credits", "worker", GetWorkerInfo(info.state[1].worker_id, ok))

GetCredits ==
    \E ok \in BOOLEAN :
        Assign("credits", "predecessors", "credit_entries", GetCreditEntries(task_id, ok))

GetPredecessors ==
    \E oks \in [ 1..2 -> BOOLEAN ] :
        Assign("predecessors", "dependents", "predecessor_tasks",
               GetPredecessorTasks(info.state[1].dependant_on, oks))

GetDependents ==
    \E ok \in BOOLEAN :
        Assign("dependents", "variants", "dependent_tasks", GetDependentTasks(task_id, ok))

\* if info.generation: variants and shot associations of that generation.
GetVariantsAndShots ==
    /\ ipc = "variants"
    /\ \E okV, okS \in BOOLEAN :
         LET gid == IF info.generation # << >> THEN info.generation[1].id ELSE None
             v == GetVariants(gid, okV)
             sh == GetShotAssociations(gid, okS)
         IN  /\ WithinFailures(v.calls \o sh.calls)
             /\ Issue(v.calls \o sh.calls)
             /\ info' = [ info EXCEPT !.variants = v.value,
                                      !.shot_associations = sh.value ]
    /\ ipc' = "orchestration"
    /\ UNCHANGED << db_tasks, db_generations, task_id, recoveryVars, logVars >>

\* The upward lookup made for every task whose params name an orchestrator.
IsChildTypeWhateverType(type) == TRUE

IsChildType(type) == type \in { "travel_segment", "join_clips_segment" }
IsParentType(type) == type \in { "travel_orchestrator", "join_clips_orchestrator" }

\* The relationships that depend on the task type, and the return.
GetOrchestration ==
    /\ ipc = "orchestration"
    /\ \E okT \in BOOLEAN, o \in [ rpc : RpcOutcomes, scan : BOOLEAN ] :
         LET state == info.state[1]
             params == state.params
             none == Returned(<< >>, << >>)
             orchestrator_id ==
                 Or(params.orchestrator_task_id, params.orchestrator_task_id_ref)
             orch == IF IsChildType(state.task_type)
                     THEN GetTaskSummary(orchestrator_id, okT) ELSE none
             sib == IF IsChildType(state.task_type) /\ params.orchestrator_run_id # None
                    THEN GetRunSiblings(params.orchestrator_run_id, task_id, o) ELSE none
             ch == IF IsParentType(state.task_type) /\ params.run_id # None
                   THEN GetChildTasks(params.run_id, o) ELSE none
             cs == orch.calls \o sib.calls \o ch.calls
         IN  /\ WithinFailures(cs)
             /\ Issue(cs)
             /\ info' = [ info EXCEPT !.orchestrator_task = orch.value,
                                      !.run_siblings = sib.value,
                                      !.child_tasks = ch.value ]
    /\ ipc' = "returned"
    /\ UNCHANGED << db_tasks, db_generations, task_id, recoveryVars, logVars >>

NextInfo ==
    \/ GetTaskState
    \/ GetLogs
    \/ GetGeneration
    \/ GetWorker
    \/ GetCredits
    \/ GetPredecessors
    \/ GetDependents
    \/ GetVariantsAndShots
    \/ GetOrchestration

\* ------------------------------------------------------ specifications

\* The recovery engine, run up to MaxRuns times one after the other.
Init == InitRecovery /\ IdleLogs /\ IdleInfo

Next == NextRecovery

Spec == Init /\ [][Next]_vars

\* One call of get_logs against a store that does not change.
InitSpecLogs == IdleRecovery /\ InitLogs /\ IdleInfo

SpecLogs == InitSpecLogs /\ [][NextLogs]_vars

\* get_logs against a table that is written to while it is read.
InitSpecLogsAppend == IdleRecovery /\ InitLogsAppend /\ IdleInfo

SpecLogsAppend == InitSpecLogsAppend /\ [][NextLogsAppend]_vars

\* Recovery runs that are started while others are running.
InitSpecConcurrent == InitConcurrent /\ IdleLogs /\ IdleInfo

SpecConcurrent == InitSpecConcurrent /\ [][NextConcurrent]_vars

\* The recovery engine on an export that is a single group.
InitSpecGroup == InitGroup /\ IdleLogs /\ IdleInfo

SpecGroup == InitSpecGroup /\ [][NextRecovery]_vars

\* The recovery engine on an export of four segments.
InitSpecFourSegments == InitFourSegments /\ IdleLogs /\ IdleInfo

SpecFourSegments == InitSpecFourSegments /\ [][NextRecovery]_vars

\* get_task_info on a tasks table larger than the scan limit.
InitSpecScan == IdleRecovery /\ IdleLogs /\ InitScan

SpecScan == InitSpecScan /\ [][NextInfo]_vars

\* get_task_info alone.
InitSpecInfo == IdleRecovery /\ IdleLogs /\ InitInfo

SpecInfo == InitSpecInfo /\ [][NextInfo]_vars

\* ------------------------------------------------ claims: recovery engine

RealDone(r) == pc[r] = "done" /\ ~dry_run[r]

DryDone(r) == pc[r] = "done" /\ dry_run[r]

\* The generation ids run r returned, step by step.
Results(r) == [ i \in DOMAIN report[r] |-> report[r][i].result ]

\* The decisions run r printed, step by step.
Decisions(r) ==
    [ i \in DOMAIN report[r] |->
        << report[r][i].segment, report[r][i].decision, report[r][i].id >> ]

\* Run r issued no generation insert that failed.
GenerationInsertsSucceeded(r) ==
    \A i \in DOMAIN report[r] :
        report[r][i].decision = "create" => report[r][i].result # None

\* Run r after run q: every id of q found present, the same ids, no insert.
SecondRunIsNoOp(q, r) ==
    /\ Len(report[r]) = Len(report[q])
    /\ \A i \in DOMAIN report[q] :
          report[q][i].result # None => report[r][i].decision = "exists"
    /\ Results(r) = Results(q)
    /\ inserts[r].generations = 0
    /\ inserts[r].generation_variants = 0

Stepped(r) == pc'[r] # pc[r] \/ cur'[r] # cur[r]

\* C2: a step of a dry run issues no insert and leaves both tables of the
\* store as they were.
C2_DryRunNoWrites ==
    [][ \A r \in Runs :
            (dry_run'[r] /\ Stepped(r)) =>
                /\ generations' = generations
                /\ variants' = variants
                /\ inserts'[r].generations = 0
                /\ inserts'[r].generation_variants = 0 ]_vars

C2_Witness ==
    \E r \in Runs :
        /\ DryDone(r)
        /\ \E i \in DOMAIN report[r] :
              report[r][i].decision = "create" /\ report[r][i].segment # NoSeg
        /\ report[r][1].decision = "create"

\* C3: a dry run and a non-dry run whose inserts all succeed, over the same
\* export and from the same store, print the same decisions with the same
\* ids and end with the same success count.
C3_DryRunSameDecisions ==
    \A q, r \in Runs :
        ( /\ DryDone(q) /\ RealDone(r)
          /\ store_at_start[q] = store_at_start[r]
          /\ failures[r] = 0 )
        => /\ Decisions(q) = Decisions(r)
           /\ success_count[q] = success_count[r]

\* The records of the group the task of a variant belongs to.
GroupOfTask(id) == segments[tasks[id].segment_index]

\* C5: a variant marked primary was built from a completed record with
\* output than which no completed record with output of its group is newer,
\* the record chosen as the source of the child generation.
C5_PrimaryIsNewestComplete ==
    \A k \in DOMAIN variants :
        variants[k].is_primary =>
            LET t == tasks[variants[k].source_task_id]
                grp == GroupOfTask(t.id)
            IN  /\ Usable(t)
                /\ \A j \in DOMAIN grp :
                      Usable(grp[j]) => grp[j].created_at <= t.created_at
                /\ grp[BestTask(grp)].id = t.id

C5_Witness ==
    \E k \in DOMAIN variants :
        /\ variants[k].is_primary
        /\ Cardinality(UsablePositions(GroupOfTask(variants[k].source_task_id))) >= 2

PrimaryVariants(g) ==
    { k \in DOMAIN variants :
        /\ variants[k].generation_id = g
        /\ variants[k].is_primary
        /\ variants[k].created_from = "recovery_script" }

\* C6: of the variants the engine wrote, at most one per generation is
\* primary.
C6_AtMostOnePrimary ==
    \A g \in GenerationIds : Cardinality(PrimaryVariants(g)) <= 1

C6_Witness ==
    \E g \in GenerationIds :
        /\ Cardinality(PrimaryVariants(g)) = 1
        /\ Cardinality({ k \in DOMAIN variants : variants[k].generation_id = g }) >= 2
        /\ \E r \in Runs : r > 1 /\ RealDone(r)

\* The generations the engine inserted as children.
RecoveredChildren ==
    { i \in DOMAIN generations :
        generations[i].created_from = "recovery_script" /\ generations[i].is_child }

\* The variants of a generation, in insert order.
VariantsOf(id) == SelectSeq(variants, LAMBDA v : v.generation_id = id)

CompleteWithOutput(t) == t.status = "Complete" /\ t.output_location # ""

\* The group's records are, newest first, A Complete, B Failed, C Complete.
GroupIsABC(grp) ==
    /\ Len(grp) = 3
    /\ CompleteWithOutput(grp[1])
    /\ grp[2].status = "Failed"
    /\ CompleteWithOutput(grp[3])

\* C13: the variants of a child generation the engine created come each
\* from a record of its group that is Complete with output and carry that
\* record's id, no record has two; when no insert failed, every such record
\* has its variant; a group [A Complete, B Failed, C Complete] gives the two
\* variants of A and C, A's primary.
C13_VariantsPerRecord ==
    \A i \in RecoveredChildren :
        LET g == generations[i]
            grp == segments[g.child_order]
            vs == VariantsOf(g.id)
        IN  /\ \A k \in DOMAIN vs :
                 /\ \E j \in DOMAIN grp : grp[j].id = vs[k].source_task_id
                 /\ CompleteWithOutput(tasks[vs[k].source_task_id])
                 /\ vs[k].location = tasks[vs[k].source_task_id].output_location
                 /\ \A m \in DOMAIN vs : vs[m].source_task_id = vs[k].source_task_id => m = k
            /\ TotalFailures = 0 =>
                 /\ \A j \in DOMAIN grp :
                      CompleteWithOutput(grp[j]) =>
                          \E k \in DOMAIN vs : vs[k].source_task_id = grp[j].id
                 /\ GroupIsABC(grp) =>
                      /\ Len(vs) = 2
                      /\ vs[1].source_task_id = grp[1].id /\ vs[1].is_primary
                      /\ vs[2].source_task_id = grp[3].id /\ ~vs[2].is_primary

\* A child generation was created from a group [A Complete, B Failed,
\* C Complete] and has its two variants.
C13_Witness ==
    \E i \in RecoveredChildren :
        /\ GroupIsABC(segments[generations[i].child_order])
        /\ tasks[2].output_location # ""
        /\ Len(VariantsOf(generations[i].id)) = 2
        /\ TotalFailures = 0

\* C14: a child generation the engine inserted has is_child true, the
\* canonical parent id as parent_generation_id, and as child_order a
\* segment_index of the export: that of the group that names its id and
\* whose newest completed output is its location.
C14_ChildOrderPreserved ==
    \A i \in RecoveredChildren :
        LET g == generations[i]
        IN  /\ g.is_child
            /\ g.parent_generation_id = FirstNonEmpty(tasks, "parent_generation_id")
            /\ g.child_order \in { tasks[j].segment_index : j \in DOMAIN tasks } \ {NoSeg}
            /\ \E j \in DOMAIN tasks :
                 /\ tasks[j].segment_index = g.child_order
                 /\ tasks[j].child_generation_id = g.id
            /\ \E j \in DOMAIN tasks :
                 /\ tasks[j].segment_index = g.child_order
                 /\ CompleteWithOutput(tasks[j])
                 /\ tasks[j].output_location = g.location

\* The export has segment 1 and no segment 0, and the child of segment 1 was
\* inserted.
C14_Witness ==
    /\ SegmentKeys(tasks) = {1}
    /\ \E i \in RecoveredChildren : generations[i].child_order = 1

\* C15: a step of the engine leaves every row of both tables as it was and
\* only appends; a generation insert is issued, and a generation row added,
\* only for an id the store does not hold.
C15_InsertOnlyNewIds ==
    [][ /\ Len(generations') >= Len(generations)
        /\ SubSeq(generations', 1, Len(generations)) = generations
        /\ Len(variants') >= Len(variants)
        /\ SubSeq(variants', 1, Len(variants)) = variants
        /\ \A i \in (Len(generations) + 1)..Len(generations') :
             generations'[i].id \notin GenerationIds
        /\ \A r \in Runs :
             inserts'[r].generations # inserts[r].generations =>
                 /\ inserts'[r].generations = inserts[r].generations + 1
                 /\ report'[r][Len(report'[r])].id \notin GenerationIds ]_vars

\* A run has added a child generation to a store that held other rows before
\* it, and those rows are as they were.
C15_Witness ==
    /\ Len(generations) = 3
    /\ generations[1] = OldRow(ParentGenId)
    /\ generations[2] = OldRow("g1")
    /\ 3 \in RecoveredChildren
    /\ variants # << >>

\* The insert of the parent generation by run r returned no data.
ParentInsertFailed(r) ==
    /\ report[r] # << >>
    /\ ~dry_run[r]
    /\ report[r][1].decision = "create"
    /\ report[r][1].result = None

\* C16: outside dry-run, when the insert of the parent generation fails the
\* run aborts, having issued that one generation insert, no child generation
\* insert and no variant insert, and having processed no segment.
C16_ParentFailureAborts ==
    \A r \in Runs :
        ParentInsertFailed(r) =>
            /\ pc[r] = "aborted"
            /\ inserts[r].generations = 1
            /\ inserts[r].generation_variants = 0
            /\ Len(report[r]) = 1
            /\ cur[r] = 1
            /\ success_count[r] = 0

\* The parent insert failed on an export with two segments that could both
\* have been created.
C16_Witness ==
    \E r \in Runs :
        /\ ParentInsertFailed(r)
        /\ Len(Keys) = 2
        /\ \A i \in DOMAIN tasks :
             CompleteWithOutput(tasks[i]) /\ tasks[i].child_generation_id # None

\* The segments of run r that returned a generation id.
Recovered(r) == { k \in 2..Len(report[r]) : report[r][k].result # None }

C18_ChildrenReferenceParent ==
    \A i \in RecoveredChildren :
        \E j \in 1..(i - 1) : generations[j].id = generations[i].parent_generation_id

\* The engine inserted the parent and then a child.
C18_Witness ==
    /\ generations # << >>
    /\ generations[1] = ParentRow(ParentGenId)
    /\ RecoveredChildren # {}
    /\ \E r \in Runs : RealDone(r)

\* The distinct segment indices of the export.
SegmentIndices == { tasks[i].segment_index : i \in DOMAIN tasks } \ {NoSeg}

\* A record of the segment carries a child_generation_id.
HasChildId(seg) ==
    \E i \in DOMAIN tasks :
        tasks[i].segment_index = seg /\ tasks[i].child_generation_id # None

\* A record of the segment is Complete with output.
HasCompleteOutput(seg) ==
    \E i \in DOMAIN tasks : tasks[i].segment_index = seg /\ CompleteWithOutput(tasks[i])

\* C23: a dry run over an export with segments never aborts; it processes
\* the M distinct segment indices and counts the N of them that have a
\* child_generation_id and a record Complete with output, without a write;
\* four segments of which two have no such record give 2 of 4.
C23_DryRunTally ==
    \A r \in Runs :
        (dry_run[r] /\ SegmentIndices # {}) =>
            /\ pc[r] \notin { "aborted", "crashed" }
            /\ pc[r] = "done" =>
                 /\ Len(report[r]) = 1 + Cardinality(SegmentIndices)
                 /\ success_count[r] =
                      Cardinality({ seg \in SegmentIndices :
                                      HasChildId(seg) /\ HasCompleteOutput(seg) })
                 /\ inserts[r].generations = 0
                 /\ inserts[r].generation_variants = 0
                 /\ ( /\ Cardinality(SegmentIndices) = 4
                      /\ \A seg \in SegmentIndices : HasChildId(seg)
                      /\ Cardinality({ seg \in SegmentIndices : HasCompleteOutput(seg) }) = 2 )
                    => success_count[r] = 2

\* A dry run over four segments, two of them without a record Complete with
\* output, has finished with a count of 2.
C23_Witness ==
    \E r \in Runs :
        /\ DryDone(r)
        /\ Cardinality(SegmentIndices) = 4
        /\ \A seg \in SegmentIndices : HasChildId(seg)
        /\ Cardinality({ seg \in SegmentIndices : HasCompleteOutput(seg) }) = 2
        /\ success_count[r] = 2
        /\ generations = << >>

\* C24: a segment whose child_generation_id names a generation that is in
\* the store is reused without a write and counted as recovered, whether or
\* not a record of it is Complete with output.
C24_ExistingChildReusedFirst ==
    \A r \in Runs :
        \A k \in 2..Len(report[r]) :
            ( /\ report[r][k].id # None
              /\ report[r][k].id \in store_at_start[r] )
            => /\ report[r][k].decision = "exists"
               /\ report[r][k].result = report[r][k].id

\* C26: when no insert failed, a child generation the engine created has
\* exactly one primary variant, and that variant's location is the
\* generation's.
C26_RecoveredChildHasPrimary ==
    TotalFailures = 0 =>
        \A i \in RecoveredChildren :
            /\ Cardinality(PrimaryVariants(generations[i].id)) = 1
            /\ \A k \in PrimaryVariants(generations[i].id) :
                   variants[k].location = generations[i].location

\* The first run found none of the export's child generations in the store.
StartedWithoutChildren ==
    /\ pc[1] # "idle"
    /\ store_at_start[1] \cap (ChildGenIds \ { None }) = {}

\* The variants of generation id that come from the record t.
VariantsFrom(id, t) ==
    { k \in DOMAIN variants :
        variants[k].generation_id = id /\ variants[k].source_task_id = t.id }

\* C27: when the store held none of the export's child generations at the
\* first run and every run so far was a real one, a finished run whose own
\* inserts all succeeded leaves every segment it counts as recovered with
\* its child generation and one variant for each record of its group that
\* is Complete with output.
C27_RerunCompletesRecovery ==
    \A r \in Runs :
        ( /\ StartedWithoutChildren
          /\ \A q \in 1..r : ~dry_run[q]
          /\ RealDone(r)
          /\ failures[r] = 0 )
        => \A k \in 2..Len(report[r]) :
               report[r][k].result # None =>
                   LET id == report[r][k].result
                       grp == segments[report[r][k].segment]
                   IN  /\ ExistsGeneration(id)
                       /\ \A i \in DOMAIN grp :
                              CompleteWithOutput(grp[i]) =>
                                  Cardinality(VariantsFrom(id, grp[i])) = 1

\* C30: a run over an export in which no record carries a segment_index ends
\* normally once started, with no write and a tally of 0 of 0 segments, in a
\* dry run as in a real one.
C30_NoSegmentsEndsNormally ==
    \A r \in Runs :
        (SegmentKeys(tasks) = {} /\ pc[r] # "idle") =>
            /\ pc[r] \in { "parent", "children", "done" }
            /\ success_count[r] = 0
            /\ inserts[r].generations = 0
            /\ inserts[r].generation_variants = 0

\* The rows of the store with a given id.
RowsWithId(id) == { i \in DOMAIN generations : generations[i].id = id }

\* The real runs that found the id absent and issued an insert for it.
Inserters(id) ==
    { r \in Runs :
        /\ ~dry_run[r]
        /\ \E k \in DOMAIN report[r] :
               report[r][k].id = id /\ report[r][k].decision = "create" }

\* The run's insert for the id was refused.
Refused(r, id) ==
    /\ ~dry_run[r]
    /\ \E k \in DOMAIN report[r] :
           /\ report[r][k].id = id
           /\ report[r][k].decision = "create"
           /\ report[r][k].result = None

\* C25: with runs that interleave, an id has two rows, or an insert for it
\* is refused, only when two different runs each found it absent and each
\* issued an insert for it; an id has no more rows than runs that did so,
\* and while one run only has been started neither happens.
C25_RaceNeedsTwoRuns ==
    /\ \A id \in GenerationIds :
           /\ Cardinality(RowsWithId(id)) > 1 =>
                  /\ Cardinality(RowsWithId(id)) <= Cardinality(Inserters(id))
                  /\ Cardinality(Inserters(id)) >= 2
           /\ \A r \in Runs :
                  Refused(r, id) => \E q \in Runs \ { r } : q \in Inserters(id)
    /\ \A r \in Runs : \A k \in DOMAIN report[r] :
           Refused(r, report[r][k].id) => report[r][k].id \in GenerationIds
    /\ Cardinality({ r \in Runs : pc[r] # "idle" }) <= 1 =>
           /\ \A id \in GenerationIds : Cardinality(RowsWithId(id)) = 1
           /\ \A r \in Runs : \A k \in DOMAIN report[r] : ~Refused(r, report[r][k].id)

\* Both runs found the same id absent and both issued an insert: the id has
\* two rows, or one of the inserts was refused.
C25_Witness ==
    \E id \in GenerationIds :
        /\ Inserters(id) = Runs
        /\ \/ Cardinality(RowsWithId(id)) = 2
           \/ \E r \in Runs : Refused(r, id)

\* --------------------------------------------------- claims: get_logs

\* Every page that was requested came back full.
EveryPageFull == RowCount(all_logs) = Len(page_requests) * PAGE_SIZE

\* C4: with limit = None and a source that fills every page, the loop stops
\* once 100 pages were fetched, and no more than 100,000 rows are returned.
C4_SafetyCap ==
    (lpc = "done" /\ limit = NoLimit /\ EveryPageFull) =>
        /\ Len(page_requests) <= max_pages
        /\ logs_result.total_count <= max_pages * PAGE_SIZE

\* The rows asked for by the first n page requests.
RECURSIVE RequestedUpTo(_)
RequestedUpTo(n) == IF n = 0 THEN 0 ELSE page_requests[n] + RequestedUpTo(n - 1)

\* get_logs was called with a limit up to the safety cap and the source
\* holds at least that many rows.
LimitWithinSource ==
    /\ lpc # "idle"
    /\ limit # NoLimit
    /\ limit <= max_pages * PAGE_SIZE
    /\ log_rows >= limit

\* C11: with a limit L no larger than the safety cap and at least L rows in
\* the source, every page request asks for min(1000, L - rows accumulated so
\* far); for L = 2,500 the requests are 1,000 + 1,000 + 500; the result has
\* exactly L rows and total_count is that length.
C11_PaginationUnderLimit ==
    LimitWithinSource =>
        /\ \A i \in DOMAIN page_requests :
             LET remaining == limit - RequestedUpTo(i - 1)
             IN  page_requests[i] = IF PAGE_SIZE <= remaining THEN PAGE_SIZE ELSE remaining
        /\ RowCount(all_logs) = RequestedUpTo(Len(page_requests))
        /\ lpc = "done" =>
             /\ RowCount(logs_result.logs) = limit
             /\ logs_result.total_count = RowCount(logs_result.logs)
             /\ limit = 2500 => page_requests = << 1000, 1000, 500 >>

\* A call with limit 2,500 has returned from a source of 3,000 rows.
C11_Witness ==
    /\ LimitWithinSource
    /\ lpc = "done"
    /\ limit = 2500
    /\ log_rows = 3000
    /\ Len(page_requests) = 3

\* The runs hold, in ascending order and each once, the rows from..to.
AscendingFromTo(runs, from, to) ==
    IF runs = << >> THEN from = to + 1
    ELSE /\ runs[1].first = from
         /\ runs[Len(runs)].last = to
         /\ \A i \in DOMAIN runs : runs[i].first <= runs[i].last
         /\ \A i \in 1..(Len(runs) - 1) : runs[i + 1].first = runs[i].last + 1

\* C12: the sequence returned by get_logs is in ascending timestamp order:
\* it is the reversal of the pages fetched in descending order at
\* consecutive offsets, that is the newest total_count rows of the source,
\* oldest first.
C12_ChronologicalReassembly ==
    lpc = "done" =>
        /\ logs_result.logs = Reverse(all_logs)
        /\ AscendingFromTo(logs_result.logs,
                           log_rows - logs_result.total_count + 1, log_rows)

\* A call has returned rows of more than one page.
C12_Witness ==
    /\ lpc = "done"
    /\ Len(page_requests) >= 3
    /\ Len(logs_result.logs) >= 3
    /\ logs_result.total_count < log_rows

\* Two runs of rows have a row in common.
Overlap(a, b) ==
    LET lo(x) == IF x.first <= x.last THEN x.first ELSE x.last
        hi(x) == IF x.first <= x.last THEN x.last ELSE x.first
    IN  ~(hi(a) < lo(b) \/ hi(b) < lo(a))

\* C28: no row is twice in what get_logs returns, also when rows were
\* appended to the table between two of its page requests.
C28_NoDuplicateRows ==
    lpc = "done" =>
        \A i, j \in DOMAIN logs_result.logs :
            i # j => ~Overlap(logs_result.logs[i], logs_result.logs[j])

\* ------------------------------------------------ claims: get_task_info

Issued(name) == \E i \in DOMAIN calls : calls[i].call = name

Failed(name) == \E i \in DOMAIN calls : calls[i].call = name /\ ~calls[i].ok

Found(name) == \E i \in DOMAIN calls : calls[i].call = name /\ calls[i].found

\* The position of a call in the order of issue.
Position(name) == CHOOSE i \in DOMAIN calls : calls[i].call = name

Before(a, b) == (Issued(a) /\ Issued(b)) => Position(a) < Position(b)

\* The row of the requested task, once read.
Subject == info.state[1]

\* C7: when the procedure get_tasks_by_run_id fails with a remote error,
\* _get_run_siblings and _get_child_tasks go on to the client-side scan of
\* tasks and return that scan's filtered result.
C7_RunQueriesFallThrough ==
    (ipc = "returned" /\ Failed("rpc.get_tasks_by_run_id")) =>
        /\ Issued("tasks.scan")
        /\ ~Failed("tasks.scan") =>
             /\ IsChildType(Subject.task_type) =>
                  info.run_siblings =
                      Entries(ScanSiblings(Subject.params.orchestrator_run_id, task_id))
             /\ IsParentType(Subject.task_type) =>
                  info.child_tasks = ScanChildren(Subject.params.run_id)

\* _get_generation_for_task has returned.
GenerationStepDone ==
    ipc \in { "worker", "credits", "predecessors", "dependents", "variants",
              "orchestration" }

\* C8: the generation of a task is looked up by params.generation_id, then
\* by the procedure, then by the scan of the recent generations, in this
\* order; a failure (a remote error in the reads of the first strategy too)
\* or an empty result goes on to the next strategy, the first strategy that
\* finds a generation keeps the later ones from issuing a call, and when
\* none finds one the result is not-found.
C8_StrategyChain ==
    GenerationStepDone =>
        /\ Before("tasks.params", "generations.by_id")
        /\ Before("tasks.params", "rpc.get_generation_by_task_id")
        /\ Before("generations.by_id", "rpc.get_generation_by_task_id")
        /\ Before("rpc.get_generation_by_task_id", "generations.recent")
        /\ Issued("tasks.params")
        /\ ~Found("generations.by_id") => Issued("rpc.get_generation_by_task_id")
        /\ (~Found("generations.by_id") /\ ~Found("rpc.get_generation_by_task_id"))
             => Issued("generations.recent")
        /\ Found("generations.by_id") =>
             /\ ~Issued("rpc.get_generation_by_task_id")
             /\ ~Issued("generations.recent")
             /\ info.generation = GenerationsById(Subject.params.generation_id)
        /\ Found("rpc.get_generation_by_task_id") =>
             /\ ~Issued("generations.recent")
             /\ info.generation = FirstRows(RpcGenerationByTaskId(task_id), 1)
        /\ Found("generations.recent") =>
             /\ Contains(info.generation[1].tasks, task_id)
             /\ Contains(RecentGenerations, info.generation[1])
        /\ ( /\ ~Found("generations.by_id")
             /\ ~Found("rpc.get_generation_by_task_id")
             /\ ~Found("generations.recent") ) => info.generation = << >>

\* C9: whatever store calls of get_task_info fail, it returns a view, a
\* failed fetch leaving its relationship empty; it never raises to the
\* caller.
C9_BestEffortView ==
    /\ ipc # "raised"
    /\ ipc = "returned" =>
         /\ Failed("system_logs") => info.logs = << >>
         /\ Failed("workers") => info.worker = << >>
         /\ Failed("credits_ledger") => info.credit_entries = << >>
         /\ Failed("tasks.dependents") => info.dependent_tasks = << >>
         /\ Failed("generation_variants") => info.variants = << >>
         /\ Failed("shot_generations") => info.shot_associations = << >>

\* The store holds no row of the requested task and has answered the read
\* of it.
AbsentTaskRead ==
    /\ TasksById(task_id) = << >>
    /\ ipc \notin { "idle", "start", "raised" }

\* C10: for a task id absent from the store, get_task_info returns a view
\* with null state, null generation, worker and orchestrator task and every
\* collection empty, after exactly one store read.
C10_AbsentTask ==
    AbsentTaskRead =>
        /\ ipc = "returned"
        /\ info = TaskInfo(task_id, << >>)
        /\ info.state = << >> /\ info.generation = << >> /\ info.worker = << >>
        /\ info.orchestrator_task = << >>
        /\ \A f \in { "logs", "variants", "credit_entries", "child_tasks",
                      "run_siblings", "dependent_tasks", "predecessor_tasks",
                      "shot_associations" } : info[f] = << >>
        /\ Len(calls) = 1
        /\ calls[1].call = "tasks.by_id"

\* The absent task has logs and credit entries a relationship fetch would
\* have found.
C10_Witness ==
    /\ AbsentTaskRead
    /\ ipc = "returned"
    /\ SystemLogs(task_id) # << >>
    /\ CreditsLedger(task_id) # << >>

\* _get_predecessor_tasks has returned.
PredecessorsDone ==
    /\ ipc \in { "dependents", "variants", "orchestration", "returned" }
    /\ info.state # << >>

\* The id is that of a row of tasks.
Resolves(id) == TasksById(id) # << >>

PositionIn(ids, id) == CHOOSE i \in DOMAIN ids : ids[i] = id

\* C19: the predecessors of a task are the summaries of the ids of its
\* dependant_on that resolve, in the order of the list; a bare id gives at
\* most the one task; an id that resolves to nothing is left out, so there
\* are never more entries than ids; an empty or null dependant_on gives the
\* empty list.
C19_PredecessorResolution ==
    PredecessorsDone =>
        LET dep == Subject.dependant_on
            p == info.predecessor_tasks
        IN  /\ Len(p) <= Len(dep.ids)
            /\ \A k \in DOMAIN p :
                 /\ Contains(dep.ids, p[k].id)
                 /\ Resolves(p[k].id)
                 /\ p[k].task_type = TasksById(p[k].id)[1].task_type
            /\ \A a, b \in DOMAIN p :
                 a < b => PositionIn(dep.ids, p[a].id) < PositionIn(dep.ids, p[b].id)
            /\ call_failures = 0 =>
                 [ k \in DOMAIN p |-> p[k].id ] = SelectSeq(dep.ids, Resolves)
            /\ (dep.kind = "string" /\ call_failures = 0) =>
                 Len(p) = IF Resolves(dep.ids[1]) THEN 1 ELSE 0
            /\ (dep.kind = "null" \/ dep.ids = << >>) => p = << >>

\* A list of two ids that both resolve has given its two summaries.
C19_Witness ==
    /\ PredecessorsDone
    /\ Subject.dependant_on = Dependencies(<< "t3", "t2" >>)
    /\ Len(info.predecessor_tasks) = 2
    /\ info.predecessor_tasks[1].id = "t3"

\* C20: in a view that get_task_info returned, a segment-type task has no
\* child tasks, an orchestrator-type task has no orchestrator task and no
\* run siblings, and a task of another type has none of the three, whatever
\* its params hold.
C20_ClassificationByTaskType ==
    (ipc = "returned" /\ info.state # << >>) =>
        LET type == Subject.task_type
            segment == type \in { "travel_segment", "join_clips_segment" }
            orchestrator == type \in { "travel_orchestrator", "join_clips_orchestrator" }
        IN  /\ segment => info.child_tasks = << >>
            /\ orchestrator =>
                 info.orchestrator_task = << >> /\ info.run_siblings = << >>
            /\ (~segment /\ ~orchestrator) =>
                 /\ info.orchestrator_task = << >>
                 /\ info.run_siblings = << >>
                 /\ info.child_tasks = << >>

\* The view of a task of another type whose params name an orchestrator and
\* both run ids has been returned.
C20_Witness ==
    /\ ipc = "returned"
    /\ info.state # << >>
    /\ Subject.task_type = "single_image"
    /\ Subject.params.orchestrator_task_id = "t2"
    /\ Subject.params.orchestrator_run_id = "r1"
    /\ Subject.params.run_id = "r1"

\* The last n rows of a result.
LastRows(rows, n) ==
    SubSeq(rows, IF Len(rows) <= n THEN 1 ELSE Len(rows) - n + 1, Len(rows))

\* The 100 segment tasks newest by creation time.
NewestSegmentTasks ==
    LastRows(SelectSeq(db_tasks,
                       LAMBDA t : t.task_type \in { "travel_segment", "join_clips_segment" }),
             SCAN_LIMIT)

IdsOf(rows) == { rows[i].id : i \in DOMAIN rows }

\* The procedure returned without a row and the scan of tasks returned.
ScanAnswered ==
    /\ ipc = "returned"
    /\ Issued("rpc.get_tasks_by_run_id")
    /\ ~Failed("rpc.get_tasks_by_run_id")
    /\ ~Found("rpc.get_tasks_by_run_id")
    /\ Issued("tasks.scan")
    /\ ~Failed("tasks.scan")

\* C21: when the procedure yields nothing, the siblings and the children are
\* exactly the tasks of the requested run (but the excluded one, for the
\* siblings) among the 100 segment tasks newest by creation time.
C21_ScanWindowIsNewest ==
    ScanAnswered =>
        /\ IsChildType(Subject.task_type) =>
             IdsOf(info.run_siblings) =
                 { t.id : t \in { NewestSegmentTasks[i] : i \in DOMAIN NewestSegmentTasks } }
                 \cap { db_tasks[i].id : i \in { j \in DOMAIN db_tasks :
                          /\ db_tasks[j].params.orchestrator_run_id
                                = Subject.params.orchestrator_run_id
                          /\ db_tasks[j].id # task_id } }
        /\ IsParentType(Subject.task_type) =>
             IdsOf(info.child_tasks) =
                 { t.id : t \in { NewestSegmentTasks[i] : i \in DOMAIN NewestSegmentTasks } }
                 \cap { db_tasks[i].id : i \in { j \in DOMAIN db_tasks :
                          db_tasks[j].params.orchestrator_run_id = Subject.params.run_id } }

\* The segment index of a task: params.segment_index when it is present,
\* params.sequence_index otherwise (NoSeg when neither is).
DerivedSegmentIndex(id) ==
    LET params == TasksById(id)[1].params
    IN  IF params.segment_index # NoSeg THEN params.segment_index
        ELSE params.sequence_index

\* A missing index counts as 0.
IndexOrZero(n) == IF n = NoSeg THEN 0 ELSE n

\* The view of an orchestrator task has been returned.
OrchestratorViewReturned ==
    /\ ipc = "returned"
    /\ info.state # << >>
    /\ IsParentType(Subject.task_type)

\* C22: the child tasks of the view of an orchestrator task are in ascending
\* order of segment index, a missing index counting as 0, whether they came
\* from the procedure or from the scan.
C22_ChildTasksOrdered ==
    OrchestratorViewReturned =>
        \A a, b \in DOMAIN info.child_tasks :
            a < b =>
                IndexOrZero(DerivedSegmentIndex(info.child_tasks[a].id))
                    <= IndexOrZero(DerivedSegmentIndex(info.child_tasks[b].id))

\* C29: in the scan of the child tasks, a task is annotated with its
\* params.segment_index when that is present, 0 included, and with its
\* params.sequence_index only when it is not; the children are sorted by the
\* annotated value.
C29_DerivedSegmentIndex ==
    (ScanAnswered /\ OrchestratorViewReturned) =>
        /\ \A k \in DOMAIN info.child_tasks :
             info.child_tasks[k].segment_index
                 = DerivedSegmentIndex(info.child_tasks[k].id)
        /\ \A a, b \in DOMAIN info.child_tasks :
             a < b =>
                 IndexOrZero(info.child_tasks[a].segment_index)
                     <= IndexOrZero(info.child_tasks[b].segment_index)

====
